---- MODULE Spec2Model ----
(***************************************************************************)
(* Franta-rust: the gateway session, the audio-node session and the        *)
(* Orchestrator's drain loop (Client::login) with the voice correlation,   *)
(* the player registry and the idle-timeout heuristic.                     *)
(*                                                                         *)
(* One action is one step of one task: the Orchestrator handling the event *)
(* at the head of the unified queue, a command dispatched to the registry, *)
(* a reader task decoding one frame, a writer task draining one payload,   *)
(* an idle timer expiring.                                                 *)
(***************************************************************************)
EXTENDS Integers, Sequences, FiniteSets, TLC

\* Option::None
None == "none"

\* ------------------------------------------------------------------ bounds
\* longest unified event queue the environment and the timers fill
MaxEvents == 1
\* idle timer tasks alive at once
MaxTimers == 2
\* longest player queue a play command extends
MaxQueueLen == 3
\* connections to the audio node that login and the loop make
MaxNodeConnects == 2

\* -------------------------------------------------------------- input sets
BotId == "bot"
Guilds == {"g1", "g2"}
Channels == {"c1", "c2"}
OtherUsers == {"u1"}
Users == {BotId} \cup OtherUsers
BotSessions == {"s1", "s2"}
Tracks == {"A", "B"}
ServerTokens == {"t1", "t2"}

\* the session id a user's voice state carries
UserSession == "su"

SessionsOf(u) == IF u = BotId THEN BotSessions ELSE {UserSession}

VARIABLES
    pc,                 \* Client::login: "loop" while draining, else how it ended
    events,             \* the unified mpsc queue of Event (tx / rx)
    user,               \* Client.user
    voice_states,       \* Client.voice_states (all users)
    m_voice_states,     \* LavalinkClient.voice_states (bot scoped)
    voice_servers,      \* LavalinkClient.voice_servers
    players,            \* LavalinkClient.players
    players_to_destroy, \* login's local Vec<(guild_id, JoinHandle)>
    timers,             \* live idle timer tasks (sleeping)
    gw_out,             \* DiscordEvLoop.sender's channel, drained by recv
    node_out,           \* LavalinkEvLoop.sender's channel, drained by recv
    node_reader,        \* the audio-node reader task is alive
    node_sender,        \* LavalinkEvLoop.sender: the channel connect made last
    ret,                \* what the last registry call returned
    resume_props,       \* login's local ResumeProperties
    gw_tasks,           \* live tasks among DiscordEvLoop.handles
    gw_superseded,      \* live tasks of connections create_handles replaced
    ws_msg,             \* the frame the gateway reader read last
    gateway             \* the gateway's end of the connection

vars == <<pc, events, user, voice_states, m_voice_states, voice_servers,
          players, players_to_destroy, timers, gw_out, node_out,
          node_reader, node_sender, ret, resume_props, gw_tasks, gw_superseded,
          ws_msg, gateway>>

\* the gateway session's part of the state
gw_vars == <<resume_props, gw_tasks, gw_superseded, ws_msg, gateway>>

\* ------------------------------------------------------------- Vec helpers
\* index of the first element satisfying P, 0 when there is none (Iterator::find)
FindIdx(s, P(_)) ==
    IF \E i \in 1..Len(s) : P(s[i])
    THEN CHOOSE i \in 1..Len(s) : P(s[i]) /\ \A j \in 1..(i - 1) : ~P(s[j])
    ELSE 0

\* Iterator::filter(..).count()
Count(s, P(_)) == Cardinality({i \in 1..Len(s) : P(s[i])})

\* match iter_mut().find(..) { Some(x) => *x = new, None => push(new) }
Upsert(s, P(_), new) ==
    LET i == FindIdx(s, P) IN
    IF i = 0 THEN Append(s, new) ELSE [s EXCEPT ![i] = new]

\* ---------------------------------------------------------------- payloads
\* LavalinkClient::send_ws: the op 4 payload, queued as Event::SendWS
SendWsEvent(guild_id, channel_id) ==
    [type |-> "SendWS",
     payload |-> [op |-> 4, guild_id |-> guild_id, channel_id |-> channel_id]]

send_ws(guild_id, channel_id) == <<SendWsEvent(guild_id, channel_id)>>

\* Player::new
NewPlayer(guild_id, channel_id) ==
    [guild_id |-> guild_id, channel_id |-> channel_id, paused |-> FALSE,
     playing |-> FALSE, queue |-> <<>>, tx |-> node_sender]

\* Player::send: the payload reaches the node's writer when the player's sender
\* feeds the channel of the live connection
PlayerSend(player, payload) ==
    IF player.tx = node_sender THEN <<payload>> ELSE <<>>

\* LavalinkClient::get_player / get_player_mut
get_player(ps, guild_id) == FindIdx(ps, LAMBDA p : p.guild_id = guild_id)

\* ------------------------------------------------------- the player registry
\* join without the lookup of an existing player
C7_join_mutant(ps, guild_id, channel_id) ==
    [err |-> None,
     players |-> Append(ps, NewPlayer(guild_id, channel_id)),
     events |-> send_ws(guild_id, channel_id)]

\* join that sends the voice-state update before the lookup
C8_join_mutant(ps, guild_id, channel_id) ==
    IF \E i \in 1..Len(ps) : ps[i].guild_id = guild_id
    THEN [err |-> "Already in a voice channel", players |-> ps,
          events |-> send_ws(guild_id, channel_id)]
    ELSE [err |-> None,
          players |-> Append(ps, NewPlayer(guild_id, channel_id)),
          events |-> send_ws(guild_id, channel_id)]

\* LavalinkClient::join
join(ps, guild_id, channel_id) ==
    IF \E i \in 1..Len(ps) : ps[i].guild_id = guild_id
    THEN [err |-> "Already in a voice channel", players |-> ps, events |-> <<>>]
    ELSE [err |-> None,
          players |-> Append(ps, NewPlayer(guild_id, channel_id)),
          events |-> send_ws(guild_id, channel_id)]

\* LavalinkClient::destroy_player: send_ws comes before the lookup
destroy_player(ps, guild_id) ==
    LET i == get_player(ps, guild_id) IN
    IF i = 0
    THEN [err |-> "Player not found", players |-> ps,
          events |-> send_ws(guild_id, None), node |-> <<>>]
    ELSE [err |-> None,
          players |-> SelectSeq(ps, LAMBDA p : p.guild_id # guild_id),
          events |-> send_ws(guild_id, None),
          node |-> PlayerSend(ps[i], [op |-> "destroy", guildId |-> guild_id])]

\* Player::connect
connect(player, session_id, server) ==
    PlayerSend(player, [op |-> "voiceUpdate", guildId |-> player.guild_id,
                        sessionId |-> session_id, event |-> server])

\* attempt_connection whose voice-state lookup ignores the guild
C2_attempt_connection_mutant(servers, states, ps, guild_id) ==
    LET si == FindIdx(servers, LAMBDA s : s.guild_id = guild_id)
        vi == FindIdx(states, LAMBDA s : TRUE)
        pi == get_player(ps, guild_id)
    IN  IF si = 0 THEN [err |-> "No voice server found", node |-> <<>>]
        ELSE IF vi = 0 THEN [err |-> "No voice state found", node |-> <<>>]
        ELSE IF pi = 0 THEN [err |-> "No player found", node |-> <<>>]
        ELSE [err |-> None,
              node |-> connect(ps[pi], states[vi].session_id, servers[si])]

\* LavalinkClient::attempt_connection
attempt_connection(servers, states, ps, guild_id) ==
    LET si == FindIdx(servers, LAMBDA s : s.guild_id = guild_id)
        vi == FindIdx(states, LAMBDA s : s.guild_id = guild_id)
        pi == get_player(ps, guild_id)
    IN  IF si = 0 THEN [err |-> "No voice server found", node |-> <<>>]
        ELSE IF vi = 0 THEN [err |-> "No voice state found", node |-> <<>>]
        ELSE IF pi = 0 THEN [err |-> "No player found", node |-> <<>>]
        ELSE [err |-> None,
              node |-> connect(ps[pi], states[vi].session_id, servers[si])]

\* play that sends the play payload on every call
C17_play_mutant(player, track) ==
    [player |-> [player EXCEPT !.playing = TRUE,
                               !.queue = Append(player.queue, track)],
     node |-> PlayerSend(player, [op |-> "play", guildId |-> player.guild_id,
                                  track |-> track])]

\* play that queues the track and sends it without marking the player playing
C36_play_mutant(player, track) ==
    [player |-> [player EXCEPT !.queue = Append(player.queue, track)],
     node |-> IF ~player.playing
              THEN PlayerSend(player, [op |-> "play", guildId |-> player.guild_id,
                                       track |-> track])
              ELSE <<>>]

\* Player::play
play(player, track) ==
    [player |-> [player EXCEPT !.playing = TRUE,
                               !.queue = Append(player.queue, track)],
     node |-> IF ~player.playing
              THEN PlayerSend(player, [op |-> "play", guildId |-> player.guild_id,
                                       track |-> track])
              ELSE <<>>]

\* skip that sends the stop payload before it looks at the queue
C18_skip_mutant(player) ==
    [track |-> IF player.queue = <<>> THEN None ELSE Head(player.queue),
     node |-> PlayerSend(player, [op |-> "stop", guildId |-> player.guild_id])]

\* Player::skip
skip(player) ==
    IF player.queue = <<>>
    THEN [track |-> None, node |-> <<>>]
    ELSE [track |-> Head(player.queue),
          node |-> PlayerSend(player, [op |-> "stop", guildId |-> player.guild_id])]

\* Player::pause
pause(player, paused) ==
    PlayerSend(player, [op |-> "pause", guildId |-> player.guild_id,
                        pause |-> paused])

\* ------------------------------------------------------------ the drain loop
\* rx.recv() yields the head of the unified queue; the writer tasks keep up
\* with the loop (their channels are unbounded)
WritersIdle == gw_out = <<>> /\ node_out = <<>>

Recv(type) ==
    /\ pc = "loop"
    /\ WritersIdle
    /\ events # <<>>
    /\ Head(events).type = type

\* Event::Ready
HandleReady ==
    /\ Recv("Ready")
    /\ user' = Head(events).id
    /\ events' = Tail(events)
    /\ ret' = None
    /\ UNCHANGED <<pc, voice_states, m_voice_states, voice_servers, players,
                   players_to_destroy, timers, gw_out, node_out, node_reader, node_sender, gw_vars>>

\* Event::SendWS, DiscordEvLoop::send
HandleSendWS ==
    /\ Recv("SendWS")
    /\ gw_out' = Append(gw_out, Head(events).payload)
    /\ events' = Tail(events)
    /\ ret' = None
    /\ UNCHANGED <<pc, user, voice_states, m_voice_states, voice_servers,
                   players, players_to_destroy, timers, node_out, node_reader, node_sender, gw_vars>>

\* the handler that pushes the voice server without looking for the guild's
C35_HandleVoiceServerUpdate_mutant ==
    /\ Recv("VoiceServerUpdate")
    /\ LET voice_server == Head(events).server
           servers == Append(voice_servers, voice_server)
           r == attempt_connection(servers, m_voice_states, players,
                                   voice_server.guild_id)
       IN  /\ voice_servers' = servers
           /\ node_out' = node_out \o r.node
           /\ ret' = r.err
    /\ events' = Tail(events)
    /\ UNCHANGED <<pc, user, voice_states, m_voice_states, players,
                   players_to_destroy, timers, gw_out, node_reader, node_sender, gw_vars>>

\* Event::VoiceServerUpdate
HandleVoiceServerUpdate ==
    /\ Recv("VoiceServerUpdate")
    /\ LET voice_server == Head(events).server
           servers == Upsert(voice_servers,
                             LAMBDA s : s.guild_id = voice_server.guild_id,
                             voice_server)
           r == attempt_connection(servers, m_voice_states, players,
                                   voice_server.guild_id)
       IN  /\ voice_servers' = servers
           /\ node_out' = node_out \o r.node
           /\ ret' = r.err
    /\ events' = Tail(events)
    /\ UNCHANGED <<pc, user, voice_states, m_voice_states, players,
                   players_to_destroy, timers, gw_out, node_reader, node_sender, gw_vars>>

\* the Some(player) arm that never clears playing
C9_track_end_mutant(player, guild_id) ==
    LET queue == Tail(player.queue) IN
    [player |-> [player EXCEPT !.queue = queue],
     node |-> IF queue # <<>>
              THEN PlayerSend(player, [op |-> "play", guildId |-> guild_id,
                                       track |-> queue[1]])
              ELSE <<>>]

\* Event::TrackEnd, the Some(player) arm once remove(0) has a head to remove
track_end(player, guild_id) ==
    LET queue == Tail(player.queue) IN
    IF queue # <<>>
    THEN [player |-> [player EXCEPT !.queue = queue],
          node |-> PlayerSend(player, [op |-> "play", guildId |-> guild_id,
                                       track |-> queue[1]])]
    ELSE [player |-> [player EXCEPT !.queue = queue, !.playing = FALSE],
          node |-> <<>>]

\* Event::TrackEnd; Vec::remove(0) panics on an empty queue
HandleTrackEnd ==
    /\ Recv("TrackEnd")
    /\ LET guild_id == Head(events).guild_id
           i == get_player(players, guild_id)
       IN  IF i = 0
           THEN UNCHANGED <<pc, players, node_out>>
           ELSE IF players[i].queue = <<>>
           THEN pc' = "panicked" /\ UNCHANGED <<players, node_out>>
           ELSE LET r == track_end(players[i], guild_id) IN
                /\ pc' = pc
                /\ players' = [players EXCEPT ![i] = r.player]
                /\ node_out' = node_out \o r.node
    /\ events' = Tail(events)
    /\ ret' = None
    /\ UNCHANGED <<user, voice_states, m_voice_states, voice_servers,
                   players_to_destroy, timers, gw_out, node_reader, node_sender, gw_vars>>

\* Event::DestroyPlayer; the closure's guild_id shadows the event's, so
\* retain(|(guild_id, _)| guild_id != guild_id) keeps no entry
HandleDestroyPlayer ==
    /\ Recv("DestroyPlayer")
    /\ LET r == destroy_player(players, Head(events).guild_id) IN
       /\ players' = r.players
       /\ events' = Tail(events) \o r.events
       /\ node_out' = node_out \o r.node
       /\ ret' = r.err
    /\ players_to_destroy' = SelectSeq(players_to_destroy,
                                       LAMBDA e : e.guild_id # e.guild_id)
    /\ UNCHANGED <<pc, user, voice_states, m_voice_states, voice_servers,
                   timers, gw_out, node_reader, node_sender, gw_vars>>

\* the handle tokio::spawn returns: an id no live timer and no stored handle has
FreshHandle ==
    CHOOSE h \in 1..(Cardinality(timers) + Len(players_to_destroy) + 1) :
        /\ \A t \in timers : t.id # h
        /\ \A i \in 1..Len(players_to_destroy) : players_to_destroy[i].handle # h

\* the bot's branch that leaves the player's recorded channel as it is
C20_BotBranch_mutant(voice_state) ==
    LET guild_id == voice_state.guild_id IN
    IF voice_state.user_id # user
    THEN [m_voice_states |-> m_voice_states, players |-> players,
          events |-> <<>>, node |-> <<>>, err |-> None]
    ELSE IF voice_state.channel_id = None
    THEN LET r == destroy_player(players, guild_id) IN
         [m_voice_states |-> SelectSeq(m_voice_states,
                                       LAMBDA s : s.guild_id # guild_id),
          players |-> r.players, events |-> r.events, node |-> r.node,
          err |-> r.err]
    ELSE [m_voice_states |-> Upsert(m_voice_states,
                                    LAMBDA s : s.guild_id = guild_id,
                                    voice_state),
          players |-> players,
          events |-> <<>>, node |-> <<>>, err |-> None]

\* the bot's branch that pushes the new record without looking for the guild's
C28_BotBranch_mutant(voice_state) ==
    LET guild_id == voice_state.guild_id IN
    IF voice_state.user_id # user
    THEN [m_voice_states |-> m_voice_states, players |-> players,
          events |-> <<>>, node |-> <<>>, err |-> None]
    ELSE IF voice_state.channel_id = None
    THEN LET r == destroy_player(players, guild_id) IN
         [m_voice_states |-> SelectSeq(m_voice_states,
                                       LAMBDA s : s.guild_id # guild_id),
          players |-> r.players, events |-> r.events, node |-> r.node,
          err |-> r.err]
    ELSE LET i == get_player(players, guild_id) IN
         [m_voice_states |-> Append(m_voice_states, voice_state),
          players |-> IF i = 0 THEN players
                      ELSE [players EXCEPT ![i].channel_id = voice_state.channel_id],
          events |-> <<>>, node |-> <<>>, err |-> None]

\* the bot's branch whose leave arm keeps the guild's record
C37_BotBranch_mutant(voice_state) ==
    LET guild_id == voice_state.guild_id IN
    IF voice_state.user_id # user
    THEN [m_voice_states |-> m_voice_states, players |-> players,
          events |-> <<>>, node |-> <<>>, err |-> None]
    ELSE IF voice_state.channel_id = None
    THEN LET r == destroy_player(players, guild_id) IN
         [m_voice_states |-> m_voice_states,
          players |-> r.players, events |-> r.events, node |-> r.node,
          err |-> r.err]
    ELSE LET i == get_player(players, guild_id) IN
         [m_voice_states |-> Upsert(m_voice_states,
                                    LAMBDA s : s.guild_id = guild_id,
                                    voice_state),
          players |-> IF i = 0 THEN players
                      ELSE [players EXCEPT ![i].channel_id = voice_state.channel_id],
          events |-> <<>>, node |-> <<>>, err |-> None]

\* the bot's own branch of Event::VoiceStateUpdate (voice_state.user_id == self.user)
BotBranch(voice_state) ==
    LET guild_id == voice_state.guild_id IN
    IF voice_state.user_id # user
    THEN [m_voice_states |-> m_voice_states, players |-> players,
          events |-> <<>>, node |-> <<>>, err |-> None]
    ELSE IF voice_state.channel_id = None
    THEN LET r == destroy_player(players, guild_id) IN
         [m_voice_states |-> SelectSeq(m_voice_states,
                                       LAMBDA s : s.guild_id # guild_id),
          players |-> r.players, events |-> r.events, node |-> r.node,
          err |-> r.err]
    ELSE LET i == get_player(players, guild_id) IN
         [m_voice_states |-> Upsert(m_voice_states,
                                    LAMBDA s : s.guild_id = guild_id,
                                    voice_state),
          players |-> IF i = 0 THEN players
                      ELSE [players EXCEPT ![i].channel_id = voice_state.channel_id],
          events |-> <<>>, node |-> <<>>, err |-> None]

\* the bot has a record of this guild in the all-users collection
BotInGuild(guild_id) ==
    \E i \in 1..Len(voice_states) :
        voice_states[i].guild_id = guild_id /\ voice_states[i].user_id = user

\* the leave branch schedules an idle destroy
SchedulesDestroy(voice_state) ==
    LET prev == FindIdx(voice_states,
                        LAMBDA s : /\ s.guild_id = voice_state.guild_id
                                   /\ s.user_id = voice_state.user_id)
    IN  /\ voice_state.channel_id = None
        /\ BotInGuild(voice_state.guild_id)
        /\ prev # 0
        /\ Count(voice_states,
                 LAMBDA s : /\ s.guild_id = voice_state.guild_id
                            /\ s.channel_id = voice_states[prev].channel_id) = 2

\* the join branch cancels the guild's idle destroy
CancelsDestroy(voice_state) ==
    /\ voice_state.channel_id # None
    /\ BotInGuild(voice_state.guild_id)
    /\ Count(voice_states,
             LAMBDA s : /\ s.guild_id = voice_state.guild_id
                        /\ s.channel_id = voice_state.channel_id) = 1
    /\ \E i \in 1..Len(players_to_destroy) :
           players_to_destroy[i].guild_id = voice_state.guild_id

\* Event::VoiceStateUpdate
HandleVoiceStateUpdate ==
    /\ Recv("VoiceStateUpdate")
    /\ LET voice_state == Head(events).vs
           guild_id == voice_state.guild_id
           b == BotBranch(voice_state)
       IN  /\ m_voice_states' = b.m_voice_states
           /\ players' = b.players
           /\ events' = Tail(events) \o b.events
           /\ node_out' = node_out \o b.node
           /\ ret' = b.err
           /\ IF voice_state.channel_id = None
              THEN /\ IF SchedulesDestroy(voice_state)
                      THEN /\ timers' = timers \cup
                                  {[id |-> FreshHandle, guild_id |-> guild_id]}
                           /\ players_to_destroy' =
                                  Append(players_to_destroy,
                                         [guild_id |-> guild_id,
                                          handle |-> FreshHandle])
                      ELSE UNCHANGED <<timers, players_to_destroy>>
                   /\ voice_states' =
                          SelectSeq(voice_states,
                                    LAMBDA s : ~(/\ s.user_id = voice_state.user_id
                                                 /\ s.guild_id = guild_id))
              ELSE /\ IF CancelsDestroy(voice_state)
                      THEN LET e == FindIdx(players_to_destroy,
                                            LAMBDA x : x.guild_id = guild_id)
                           IN  /\ timers' = {t \in timers :
                                      t.id # players_to_destroy[e].handle}
                               /\ players_to_destroy' =
                                      SelectSeq(players_to_destroy,
                                                LAMBDA x : x.guild_id # guild_id)
                      ELSE UNCHANGED <<timers, players_to_destroy>>
                   /\ voice_states' =
                          Upsert(voice_states,
                                 LAMBDA s : /\ s.guild_id = guild_id
                                            /\ s.user_id = voice_state.user_id,
                                 voice_state)
    /\ UNCHANGED <<pc, user, voice_servers, gw_out, node_reader, node_sender, gw_vars>>

\* update_player_tx that leaves the players' senders as they are
C19_update_player_tx_mutant(ps, sender) == ps

\* LavalinkClient::update_player_tx
update_player_tx(ps, sender) == [i \in 1..Len(ps) |-> [ps[i] EXCEPT !.tx = sender]]

\* Event::LavalinkClosed: abort the writer, connect again (a new channel is
\* socket.sender), update_player_tx. A failed connect leaves login through `?`.
HandleLavalinkClosed ==
    /\ Recv("LavalinkClosed")
    /\ events' = Tail(events)
    /\ \E connected \in BOOLEAN :
        IF connected
        THEN /\ node_reader' = TRUE
             /\ node_sender' = node_sender + 1
             /\ players' = update_player_tx(players, node_sender + 1)
             /\ pc' = pc
             /\ ret' = None
        ELSE /\ pc' = "exited"
             /\ ret' = "Failed to connect to the lavalink"
             /\ UNCHANGED <<players, node_reader, node_sender>>
    /\ UNCHANGED <<user, voice_states, m_voice_states, voice_servers,
                   players_to_destroy, timers, gw_out, node_out, gw_vars>>

\* ------------------------------------------------------ the gateway session
\* the session ids the gateway hands out, in order
SessionIds == <<"sess1", "sess2">>
\* the resume_gateway_url of READY
ResumeUrl == "wss://resume"
\* highest sequence number the gateway sends
MaxSeq == 3

\* the close codes read off the socket: the table's, and others
CloseCodes == {1000, 1006, 3000, 4999} \cup (4000..4015)

\* tungstenite's CloseCode::from(u16): 4000..=4999 is CloseCode::Library
IsLibraryCode(code) == code \in 4000..4999

AllTasks == {"recv", "handle_events", "heartbeat"}

\* on_close: the event to send, or None for Err; an Option is <<>> or <<v>>
C1_on_close_mutant(close) ==
    IF close = <<>> THEN None
    ELSE IF IsLibraryCode(close[1])
         THEN IF close[1] \in {4000, 4001, 4002} THEN "Resume"
              ELSE IF close[1] \in {4003, 4005, 4007, 4008, 4009} THEN "Reconnect"
              ELSE IF close[1] \in {4004, 4010, 4011, 4013, 4014} THEN None
              ELSE "Resume"
         ELSE "Resume"

on_close(close) ==
    IF close = <<>> THEN None
    ELSE IF IsLibraryCode(close[1])
         THEN IF close[1] \in {4000, 4001, 4002} THEN "Resume"
              ELSE IF close[1] \in {4003, 4005, 4007, 4008} THEN "Reconnect"
              ELSE IF close[1] = 4009 THEN "Resume"
              ELSE IF close[1] \in {4004, 4010, 4011, 4013, 4014} THEN None
              ELSE "Resume"
         ELSE "Resume"

\* create_event: the event of a named dispatch, <<>> for Err
create_event(msg) ==
    IF msg.t = "READY"
    THEN IF msg.d.user = None THEN <<>>
         ELSE <<[type |-> "Ready", id |-> msg.d.user]>>
    ELSE <<>>

\* a reader that leaves silently when the stream ends
C14_stream_ended_mutant == <<>>

\* a reader that asks twice for the resume when the stream ends
C38_stream_ended_mutant == <<[type |-> "Resume"], [type |-> "Resume"]>>

\* handle_events after the loop, when the stream ended or failed: !broke
stream_ended == <<[type |-> "Resume"]>>

\* a reader that sends the Resume of opcode 7 before the payload's sequence number
C22_handle_events_mutant(msg) ==
    IF msg.kind = "text"
    THEN LET seq == IF msg.s # <<>>
                    THEN <<[type |-> "ResumeSeq", seq |-> msg.s[1]]>>
                    ELSE <<>>
         IN  IF msg.op = 7
             THEN [events |-> <<[type |-> "Resume"]>> \o seq, ends |-> TRUE]
             ELSE IF msg.op = 9
             THEN [events |-> seq \o (IF msg.d = "true"
                                      THEN <<[type |-> "Resume"]>> ELSE <<>>),
                   ends |-> TRUE]
             ELSE IF msg.t = None
             THEN [events |-> seq, ends |-> FALSE]
             ELSE IF msg.t = "READY"
                     /\ (msg.d.resume_gateway_url = None \/ msg.d.session_id = None)
             THEN [events |-> seq, ends |-> FALSE]
             ELSE IF msg.t = "READY"
             THEN [events |-> seq \o <<[type |-> "ResumeProps",
                                        resume_gateway_url |-> msg.d.resume_gateway_url,
                                        session_id |-> msg.d.session_id]>>
                                  \o create_event(msg),
                   ends |-> FALSE]
             ELSE [events |-> seq \o create_event(msg), ends |-> FALSE]
    ELSE IF msg.kind = "close"
    THEN [events |-> IF on_close(msg.code) = None THEN <<>>
                     ELSE <<[type |-> on_close(msg.code)]>>,
          ends |-> TRUE]
    ELSE [events |-> stream_ended, ends |-> TRUE]

\* a reader that goes on to the dispatch of an opcode 7 payload and keeps reading
C23_handle_events_mutant(msg) ==
    IF msg.kind = "text"
    THEN LET seq == IF msg.s # <<>>
                    THEN <<[type |-> "ResumeSeq", seq |-> msg.s[1]]>>
                    ELSE <<>>
             op == IF msg.op = 7 THEN <<[type |-> "Resume"]>> ELSE <<>>
         IN  IF msg.op = 9
             THEN [events |-> seq \o (IF msg.d = "true"
                                      THEN <<[type |-> "Resume"]>> ELSE <<>>),
                   ends |-> TRUE]
             ELSE IF msg.t = None
             THEN [events |-> seq \o op, ends |-> FALSE]
             ELSE IF msg.t = "READY"
                     /\ (msg.d.resume_gateway_url = None \/ msg.d.session_id = None)
             THEN [events |-> seq \o op, ends |-> FALSE]
             ELSE IF msg.t = "READY"
             THEN [events |-> seq \o op
                                  \o <<[type |-> "ResumeProps",
                                        resume_gateway_url |-> msg.d.resume_gateway_url,
                                        session_id |-> msg.d.session_id]>>
                                  \o create_event(msg),
                   ends |-> FALSE]
             ELSE [events |-> seq \o op \o create_event(msg), ends |-> FALSE]
    ELSE IF msg.kind = "close"
    THEN [events |-> IF on_close(msg.code) = None THEN <<>>
                     ELSE <<[type |-> on_close(msg.code)]>>,
          ends |-> TRUE]
    ELSE [events |-> stream_ended, ends |-> TRUE]

\* a reader that hands a READY without resume_gateway_url or session_id on
\* to create_event
C25_handle_events_mutant(msg) ==
    IF msg.kind = "text"
    THEN LET seq == IF msg.s # <<>>
                    THEN <<[type |-> "ResumeSeq", seq |-> msg.s[1]]>>
                    ELSE <<>>
         IN  IF msg.op = 7
             THEN [events |-> seq \o <<[type |-> "Resume"]>>, ends |-> TRUE]
             ELSE IF msg.op = 9
             THEN [events |-> seq \o (IF msg.d = "true"
                                      THEN <<[type |-> "Resume"]>> ELSE <<>>),
                   ends |-> TRUE]
             ELSE IF msg.t = None
             THEN [events |-> seq, ends |-> FALSE]
             ELSE IF msg.t = "READY"
                     /\ (msg.d.resume_gateway_url = None \/ msg.d.session_id = None)
             THEN [events |-> seq \o create_event(msg), ends |-> FALSE]
             ELSE IF msg.t = "READY"
             THEN [events |-> seq \o <<[type |-> "ResumeProps",
                                        resume_gateway_url |-> msg.d.resume_gateway_url,
                                        session_id |-> msg.d.session_id]>>
                                  \o create_event(msg),
                   ends |-> FALSE]
             ELSE [events |-> seq \o create_event(msg), ends |-> FALSE]
    ELSE IF msg.kind = "close"
    THEN [events |-> IF on_close(msg.code) = None THEN <<>>
                     ELSE <<[type |-> on_close(msg.code)]>>,
          ends |-> TRUE]
    ELSE [events |-> stream_ended, ends |-> TRUE]

\* one iteration of handle_events' loop on a frame: the events sent on tx, and
\* whether the task ends (break, or the stream's end)
handle_events(msg) ==
    IF msg.kind = "text"
    THEN LET seq == IF msg.s # <<>>
                    THEN <<[type |-> "ResumeSeq", seq |-> msg.s[1]]>>
                    ELSE <<>>
         IN  IF msg.op = 7
             THEN [events |-> seq \o <<[type |-> "Resume"]>>, ends |-> TRUE]
             ELSE IF msg.op = 9
             THEN [events |-> seq \o (IF msg.d = "true"
                                      THEN <<[type |-> "Resume"]>> ELSE <<>>),
                   ends |-> TRUE]
             ELSE IF msg.t = None
             THEN [events |-> seq, ends |-> FALSE]
             ELSE IF msg.t = "READY"
                     /\ (msg.d.resume_gateway_url = None \/ msg.d.session_id = None)
             THEN [events |-> seq, ends |-> FALSE]
             ELSE IF msg.t = "READY"
             THEN [events |-> seq \o <<[type |-> "ResumeProps",
                                        resume_gateway_url |-> msg.d.resume_gateway_url,
                                        session_id |-> msg.d.session_id]>>
                                  \o create_event(msg),
                   ends |-> FALSE]
             ELSE [events |-> seq \o create_event(msg), ends |-> FALSE]
    ELSE IF msg.kind = "close"
    THEN [events |-> IF on_close(msg.code) = None THEN <<>>
                     ELSE <<[type |-> on_close(msg.code)]>>,
          ends |-> TRUE]
    ELSE [events |-> stream_ended, ends |-> TRUE]

\* --- the gateway's end: a session, its last sequence number, what the
\* --- connection waits for, and what it handed to the readers so far: the
\* --- last sequence number (last_s) and the session of the last READY that
\* --- was dispatched whole (last_ready)
\* an identify (op 2) opens the next session; everything else leaves it alone
ServerReceives(srv, payload) ==
    IF payload.op = 2 /\ srv.phase = "await" /\ srv.session < Len(SessionIds)
    THEN [srv EXCEPT !.phase = "ready_due", !.session = srv.session + 1,
                     !.seq = 0]
    ELSE srv

\* a new connection, after hello; a resume payload is accepted for the
\* gateway's current session at a sequence number it has sent
ServerAccepts(srv, resume) ==
    IF resume = <<>> THEN [srv EXCEPT !.phase = "await"]
    ELSE IF /\ srv.session > 0
            /\ resume[1].session_id = SessionIds[srv.session]
            /\ resume[1].seq <= srv.seq
    THEN [srv EXCEPT !.phase = "live", !.seq = resume[1].seq]
    ELSE [srv EXCEPT !.phase = "invalid"]

TextFrame(s, op, t, d) == [kind |-> "text", s |-> s, op |-> op, t |-> t, d |-> d]

\* the frames the gateway may send next on the connection
Frames(srv) ==
    (IF srv.phase = "ready_due"
     THEN {TextFrame(<<srv.seq + 1>>, 0, "READY",
                     [resume_gateway_url |-> url,
                      session_id |-> sid,
                      user |-> BotId]) :
               url \in {ResumeUrl, None},
               sid \in {SessionIds[srv.session], None}}
     ELSE {})
    \cup
    (IF srv.phase \in {"ready_due", "live"} /\ srv.seq < MaxSeq
     THEN {TextFrame(<<srv.seq + 1>>, 7, "READY",
                     [resume_gateway_url |-> ResumeUrl,
                      session_id |-> SessionIds[srv.session],
                      user |-> BotId])}
     ELSE {})
    \cup
    (IF srv.phase = "live" /\ srv.seq < MaxSeq
     THEN {TextFrame(<<srv.seq + 1>>, 0, "RESUMED", None)}
     ELSE {})
    \cup
    (IF srv.phase = "invalid" THEN {TextFrame(<<>>, 9, None, "false")} ELSE {})
    \cup
    (IF srv.phase \in {"ready_due", "live"}
     THEN {TextFrame(<<>>, 11, None, None), TextFrame(<<>>, 7, None, None),
           TextFrame(<<>>, 9, None, "true"), TextFrame(<<>>, 9, None, "false"),
           TextFrame(<<>>, 9, None, None)}
     ELSE {})
    \cup
    (IF srv.phase # "gone"
     THEN {[kind |-> "close", code |-> <<c>>] : c \in CloseCodes}
          \cup {[kind |-> "close", code |-> <<>>]}
          \cup {[kind |-> "eof"]}
     ELSE {})

\* the gateway after it sent the frame
ServerSent(srv, msg) ==
    IF msg.kind # "text" THEN [srv EXCEPT !.phase = "gone"]
    ELSE IF msg.s # <<>>
    THEN [srv EXCEPT !.phase = "live", !.seq = msg.s[1], !.last_s = msg.s[1],
                     !.last_ready =
                         IF /\ msg.op = 0
                            /\ msg.t = "READY"
                            /\ msg.d.resume_gateway_url # None
                            /\ msg.d.session_id # None
                         THEN msg.d.session_id
                         ELSE srv.last_ready]
    ELSE srv

\* the reader task (DiscordEvLoop::handle_events) reads one frame
GatewayReader ==
    /\ pc = "loop"
    /\ "handle_events" \in gw_tasks
    /\ Len(events) < MaxEvents
    /\ \E msg \in Frames(gateway) :
        LET r == handle_events(msg) IN
        /\ ws_msg' = msg
        /\ events' = events \o r.events
        /\ gw_tasks' = IF r.ends THEN gw_tasks \ {"handle_events"} ELSE gw_tasks
        /\ gateway' = ServerSent(gateway, msg)
    /\ UNCHANGED <<pc, user, voice_states, m_voice_states, voice_servers, players,
                   players_to_destroy, timers, gw_out, node_out, node_reader, node_sender,
                   ret, resume_props, gw_superseded>>

\* the heartbeat task (DiscordEvLoop::heartbeat) ticks
GatewayHeartbeat ==
    /\ pc = "loop"
    /\ "heartbeat" \in gw_tasks
    /\ gw_out = <<>>
    /\ gw_out' = Append(gw_out, [op |-> 1])
    /\ UNCHANGED <<pc, events, user, voice_states, m_voice_states, voice_servers,
                   players, players_to_destroy, timers, node_out, node_reader, node_sender,
                   ret, gw_vars>>

\* Event::ResumeSeq
HandleResumeSeq ==
    /\ Recv("ResumeSeq")
    /\ resume_props' = [resume_props EXCEPT !.seq = Head(events).seq]
    /\ events' = Tail(events)
    /\ ret' = None
    /\ UNCHANGED <<pc, user, voice_states, m_voice_states, voice_servers, players,
                   players_to_destroy, timers, gw_out, node_out, node_reader, node_sender,
                   gw_tasks, gw_superseded, ws_msg, gateway>>

\* Event::ResumeProps
HandleResumeProps ==
    /\ Recv("ResumeProps")
    /\ resume_props' = [resume_props EXCEPT
                            !.resume_gateway_url = Head(events).resume_gateway_url,
                            !.session_id = Head(events).session_id]
    /\ events' = Tail(events)
    /\ ret' = None
    /\ UNCHANGED <<pc, user, voice_states, m_voice_states, voice_servers, players,
                   players_to_destroy, timers, gw_out, node_out, node_reader, node_sender,
                   gw_tasks, gw_superseded, ws_msg, gateway>>

\* abort_tasks that leaves the tasks running
C24_abort_tasks_mutant(tasks) == tasks

\* DiscordEvLoop::abort_tasks: every handle is aborted and the Vec is cleared;
\* the tasks of the connection that are left running
abort_tasks(tasks) == {}

\* DiscordEvLoop::abort_tasks, then DiscordEvLoop::create_handles: connect_async
\* to gateway_url and get_heartbeat may fail (`?` leaves login); then the resume
\* payload goes straight to the socket, and the three tasks are spawned
create_handles(gateway_url, resume, connected, first) ==
    /\ gw_superseded' = gw_superseded \cup abort_tasks(gw_tasks)
    /\ IF gateway_url # "" /\ connected
       THEN /\ pc' = pc
            /\ gw_tasks' = AllTasks
            /\ gw_out' = first
            /\ gateway' = ServerAccepts(gateway, resume)
            /\ ret' = None
       ELSE /\ pc' = "exited"
            /\ gw_tasks' = {}
            /\ gw_out' = gw_out
            /\ gateway' = [gateway EXCEPT !.phase = "gone"]
            /\ ret' = "failed to connect to the gateway"

\* Event::Resume
HandleResume ==
    /\ Recv("Resume")
    /\ events' = Tail(events)
    /\ \E connected \in BOOLEAN :
           create_handles(resume_props.resume_gateway_url, <<resume_props>>,
                          connected, <<>>)
    /\ UNCHANGED <<user, voice_states, m_voice_states, voice_servers, players,
                   players_to_destroy, timers, node_out, node_reader, node_sender,
                   resume_props, ws_msg>>

\* Event::Reconnect: no resume payload, then socket.send(&payload) (identify)
HandleReconnect ==
    /\ Recv("Reconnect")
    /\ events' = Tail(events)
    /\ \E connected \in BOOLEAN :
           create_handles(resume_props.resume_gateway_url, <<>>,
                          connected, <<[op |-> 2]>>)
    /\ UNCHANGED <<user, voice_states, m_voice_states, voice_servers, players,
                   players_to_destroy, timers, node_out, node_reader, node_sender,
                   resume_props, ws_msg>>

\* --------------------------------------------------- commands (the registry's callers)
\* a command handed to the registry while the loop handles an InteractionCreate
Command ==
    /\ pc = "loop"
    /\ WritersIdle

\* manager.join(guild_id, channel_id)
CmdJoin(guild_id, channel_id) ==
    /\ Command
    /\ Len(events) < MaxEvents
    /\ LET r == join(players, guild_id, channel_id) IN
       /\ players' = r.players
       /\ events' = events \o r.events
       /\ ret' = r.err
    /\ UNCHANGED <<pc, user, voice_states, m_voice_states, voice_servers,
                   players_to_destroy, timers, gw_out, node_out, node_reader, node_sender, gw_vars>>

\* manager.destroy_player(guild_id)
CmdDestroy(guild_id) ==
    /\ Command
    /\ Len(events) < MaxEvents
    /\ LET r == destroy_player(players, guild_id) IN
       /\ players' = r.players
       /\ events' = events \o r.events
       /\ node_out' = node_out \o r.node
       /\ ret' = r.err
    /\ UNCHANGED <<pc, user, voice_states, m_voice_states, voice_servers,
                   players_to_destroy, timers, gw_out, node_reader, node_sender, gw_vars>>

\* player.play(track)
CmdPlay(guild_id, track) ==
    /\ Command
    /\ LET i == get_player(players, guild_id) IN
       /\ i # 0
       /\ Len(players[i].queue) < MaxQueueLen
       /\ LET r == play(players[i], track) IN
          /\ players' = [players EXCEPT ![i] = r.player]
          /\ node_out' = node_out \o r.node
    /\ ret' = None
    /\ UNCHANGED <<pc, events, user, voice_states, m_voice_states, voice_servers,
                   players_to_destroy, timers, gw_out, node_reader, node_sender, gw_vars>>

\* player.skip()
CmdSkip(guild_id) ==
    /\ Command
    /\ LET i == get_player(players, guild_id) IN
       /\ i # 0
       /\ LET r == skip(players[i]) IN
          /\ node_out' = node_out \o r.node
          /\ ret' = IF r.track = None THEN "NothingPlaying" ELSE r.track
    /\ UNCHANGED <<pc, events, user, voice_states, m_voice_states, voice_servers,
                   players, players_to_destroy, timers, gw_out, node_reader, node_sender, gw_vars>>

\* player.pause(paused)
CmdPause(guild_id, paused) ==
    /\ Command
    /\ LET i == get_player(players, guild_id) IN
       /\ i # 0
       /\ node_out' = node_out \o pause(players[i], paused)
    /\ ret' = None
    /\ UNCHANGED <<pc, events, user, voice_states, m_voice_states, voice_servers,
                   players, players_to_destroy, timers, gw_out, node_reader, node_sender, gw_vars>>

\* ------------------------------------------------------------- other tasks
\* the idle timer task: sleep(300 s), then tx_c.send(Event::DestroyPlayer(guild_id))
TimerFire ==
    /\ pc = "loop"
    /\ Len(events) < MaxEvents
    /\ \E t \in timers :
        /\ timers' = timers \ {t}
        /\ events' = Append(events, [type |-> "DestroyPlayer",
                                     guild_id |-> t.guild_id])
    /\ UNCHANGED <<pc, user, voice_states, m_voice_states, voice_servers,
                   players, players_to_destroy, gw_out, node_out, node_reader, node_sender,
                   ret, gw_vars>>

\* DiscordEvLoop::recv: the writer task moves one payload to the socket
GatewayWriter ==
    /\ pc = "loop"
    /\ "recv" \in gw_tasks
    /\ gw_out # <<>>
    /\ gw_out' = Tail(gw_out)
    /\ gateway' = ServerReceives(gateway, Head(gw_out))
    /\ UNCHANGED <<pc, events, user, voice_states, m_voice_states, voice_servers,
                   players, players_to_destroy, timers, node_out, node_reader, node_sender,
                   ret, resume_props, gw_tasks, gw_superseded, ws_msg>>

\* LavalinkEvLoop::recv
NodeWriter ==
    /\ pc = "loop"
    /\ node_out # <<>>
    /\ node_out' = Tail(node_out)
    /\ UNCHANGED <<pc, events, user, voice_states, m_voice_states, voice_servers,
                   players, players_to_destroy, timers, gw_out, node_reader, node_sender,
                   ret, gw_vars>>

\* events the readers may still add: the queue bound, and the timer bound for
\* a voice state that may schedule an idle destroy
Room(e) ==
    /\ pc = "loop"
    /\ Len(events) < MaxEvents
    /\ (e.type = "VoiceStateUpdate" /\ e.vs.channel_id = None) =>
           Cardinality(timers)
             + Count(events, LAMBDA x : /\ x.type = "VoiceStateUpdate"
                                        /\ x.vs.channel_id = None)
             < MaxTimers

\* the gateway reader forwards a VOICE_STATE_UPDATE dispatch (create_event)
GatewayVoiceState(guilds, users, channels, sessions) ==
    \E g \in guilds, u \in users, c \in channels \cup {None} :
    \E s \in SessionsOf(u) \cap sessions :
        LET e == [type |-> "VoiceStateUpdate",
                  vs |-> [guild_id |-> g, user_id |-> u, channel_id |-> c,
                          session_id |-> s]]
        IN  /\ Room(e)
            /\ events' = Append(events, e)
            /\ UNCHANGED <<pc, user, voice_states, m_voice_states, voice_servers,
                           players, players_to_destroy, timers, gw_out, node_out,
                           node_reader, node_sender, ret, gw_vars>>

\* the gateway reader forwards a VOICE_SERVER_UPDATE dispatch (create_event)
GatewayVoiceServer(guilds) ==
    \E g \in guilds, t \in ServerTokens :
        LET e == [type |-> "VoiceServerUpdate",
                  server |-> [guild_id |-> g, token |-> t, endpoint |-> "e" \o t]]
        IN  /\ Room(e)
            /\ events' = Append(events, e)
            /\ UNCHANGED <<pc, user, voice_states, m_voice_states, voice_servers,
                           players, players_to_destroy, timers, gw_out, node_out,
                           node_reader, node_sender, ret, gw_vars>>

\* the node reader forwards a TrackEndEvent payload
NodeTrackEnd(guilds) ==
    \E g \in guilds :
        LET e == [type |-> "TrackEnd", guild_id |-> g] IN
        /\ node_reader
        /\ Room(e)
        /\ events' = Append(events, e)
        /\ UNCHANGED <<pc, user, voice_states, m_voice_states, voice_servers,
                       players, players_to_destroy, timers, gw_out, node_out,
                       node_reader, node_sender, ret, gw_vars>>

\* the node reader gets a close frame: Event::LavalinkClosed, then break
NodeClose ==
    LET e == [type |-> "LavalinkClosed"] IN
    /\ node_reader
    /\ node_sender < MaxNodeConnects
    /\ Room(e)
    /\ events' = Append(events, e)
    /\ node_reader' = FALSE
    /\ node_sender' = node_sender
    /\ UNCHANGED <<pc, user, voice_states, m_voice_states, voice_servers,
                   players, players_to_destroy, timers, gw_out, node_out, ret, gw_vars>>

\* the frames the audio node's reader may read: text that is JSON or not, with
\* or without a guildId and a type, a frame of another kind, a close frame,
\* and the end of the stream (None from read.next(), or Some(Err))
NodeFrames ==
    {[kind |-> "text", json |-> j, guildId |-> g, type |-> t] :
         j \in BOOLEAN, g \in Guilds \cup {None},
         t \in {"TrackEndEvent", "TrackStartEvent", None}}
    \cup {[kind |-> "binary"], [kind |-> "close"], [kind |-> "eof"]}

\* a node reader that takes every event type for a track's end
C26_node_read_mutant(msg) ==
    IF msg.kind = "text"
    THEN IF ~msg.json \/ msg.guildId = None
         THEN [events |-> <<>>, ends |-> FALSE]
         ELSE IF msg.type # None
         THEN [events |-> <<[type |-> "TrackEnd", guild_id |-> msg.guildId]>>,
               ends |-> FALSE]
         ELSE [events |-> <<>>, ends |-> FALSE]
    ELSE IF msg.kind = "close"
    THEN [events |-> <<[type |-> "LavalinkClosed"]>>, ends |-> TRUE]
    ELSE IF msg.kind = "eof"
    THEN [events |-> <<>>, ends |-> TRUE]
    ELSE [events |-> <<>>, ends |-> FALSE]

\* one iteration of the loop of the reader task LavalinkEvLoop::connect spawns:
\* the events sent on tx, and whether the task ends
node_read(msg) ==
    IF msg.kind = "text"
    THEN IF ~msg.json \/ msg.guildId = None
         THEN [events |-> <<>>, ends |-> FALSE]
         ELSE IF msg.type = "TrackEndEvent"
         THEN [events |-> <<[type |-> "TrackEnd", guild_id |-> msg.guildId]>>,
               ends |-> FALSE]
         ELSE [events |-> <<>>, ends |-> FALSE]
    ELSE IF msg.kind = "close"
    THEN [events |-> <<[type |-> "LavalinkClosed"]>>, ends |-> TRUE]
    ELSE IF msg.kind = "eof"
    THEN [events |-> <<>>, ends |-> TRUE]
    ELSE [events |-> <<>>, ends |-> FALSE]

\* the node's reader task reads one frame; the node closes a connection only
\* while the loop may still make another
NodeReader(msg) ==
    /\ pc = "loop"
    /\ node_reader
    /\ Len(events) < MaxEvents
    /\ msg.kind = "close" => node_sender < MaxNodeConnects
    /\ LET r == node_read(msg) IN
       /\ events' = events \o r.events
       /\ node_reader' = ~r.ends
    /\ UNCHANGED <<pc, user, voice_states, m_voice_states, voice_servers,
                   players, players_to_destroy, timers, gw_out, node_out,
                   node_sender, ret, gw_vars>>

\* ------------------------------------------------------------ specifications
\* login before the loop: the gateway and the node are connected, the identify
\* payload is queued for the writer
InitLogin ==
    /\ pc = "loop"
    /\ events = <<>>
    /\ user = ""
    /\ voice_states = <<>>
    /\ m_voice_states = <<>>
    /\ voice_servers = <<>>
    /\ players = <<>>
    /\ players_to_destroy = <<>>
    /\ timers = {}
    /\ gw_out = <<[op |-> 2]>>
    /\ node_out = <<>>
    /\ node_reader = TRUE
    /\ node_sender = 1
    /\ ret = None
    /\ resume_props = [resume_gateway_url |-> "", session_id |-> "", seq |-> 0,
                       token |-> "token"]
    /\ gw_tasks = AllTasks
    /\ gw_superseded = {}
    /\ ws_msg = [kind |-> "hello"]
    /\ gateway = [phase |-> "await", session |-> 0, seq |-> 0,
                  last_s |-> 0, last_ready |-> ""]

\* the session is up: identify was written, READY was read, its ResumeSeq and
\* ResumeProps were handled, and its Ready event heads the queue
Init ==
    /\ pc = "loop"
    /\ events = <<[type |-> "Ready", id |-> BotId]>>
    /\ user = ""
    /\ voice_states = <<>>
    /\ m_voice_states = <<>>
    /\ voice_servers = <<>>
    /\ players = <<>>
    /\ players_to_destroy = <<>>
    /\ timers = {}
    /\ gw_out = <<>>
    /\ node_out = <<>>
    /\ node_reader = TRUE
    /\ node_sender = 1
    /\ ret = None
    /\ resume_props = [resume_gateway_url |-> ResumeUrl,
                       session_id |-> SessionIds[1], seq |-> 1,
                       token |-> "token"]
    /\ gw_tasks = AllTasks
    /\ gw_superseded = {}
    /\ ws_msg = TextFrame(<<1>>, 0, "READY",
                          [resume_gateway_url |-> ResumeUrl,
                           session_id |-> SessionIds[1], user |-> BotId])
    /\ gateway = [phase |-> "live", session |-> 1, seq |-> 1,
                  last_s |-> 1, last_ready |-> SessionIds[1]]

\* the voice correlation: the bot's voice states and the voice servers of two
\* guilds, against join and destroy
Next ==
    \/ HandleReady
    \/ HandleSendWS
    \/ HandleVoiceStateUpdate
    \/ HandleVoiceServerUpdate
    \/ \E g \in Guilds : CmdJoin(g, "c1")
    \/ \E g \in Guilds : CmdDestroy(g)
    \/ GatewayWriter
    \/ NodeWriter
    \/ GatewayVoiceState(Guilds, {BotId}, {"c1"}, BotSessions)
    \/ GatewayVoiceServer(Guilds)

Spec == Init /\ [][Next]_vars

\* the idle timeout: every user's voice states, the timers and their expiry
NextIdle ==
    \/ HandleReady
    \/ HandleSendWS
    \/ HandleVoiceStateUpdate
    \/ HandleDestroyPlayer
    \/ \E g \in Guilds : CmdJoin(g, "c1")
    \/ \E g \in Guilds : CmdDestroy(g)
    \/ TimerFire
    \/ GatewayWriter
    \/ NodeWriter
    \/ GatewayVoiceState(Guilds, Users, {"c1"}, {"s1", UserSession})

SpecIdle == Init /\ [][NextIdle]_vars

\* the player registry: commands, track ends and node reconnects; tracks are
\* played in g1, the bot enters and leaves c1 of g1
NextPlayers ==
    \/ HandleReady
    \/ HandleSendWS
    \/ HandleVoiceStateUpdate
    \/ HandleTrackEnd
    \/ HandleLavalinkClosed
    \/ \E g \in Guilds, c \in Channels : CmdJoin(g, c)
    \/ \E g \in Guilds : CmdDestroy(g)
    \/ \E t \in Tracks : CmdPlay("g1", t)
    \/ \E g \in Guilds : CmdSkip(g)
    \/ \E g \in Guilds, b \in BOOLEAN : CmdPause(g, b)
    \/ GatewayWriter
    \/ NodeWriter
    \/ GatewayVoiceState({"g1"}, {BotId}, {"c1"}, {"s1"})
    \/ NodeTrackEnd(Guilds)
    \/ NodeClose

SpecPlayers == Init /\ [][NextPlayers]_vars

\* the voice states of the bot and of another user in one guild, over two
\* channels, against join and the idle timers
NextVoiceState ==
    \/ HandleReady
    \/ HandleSendWS
    \/ HandleVoiceStateUpdate
    \/ HandleDestroyPlayer
    \/ \E c \in Channels : CmdJoin("g1", c)
    \/ TimerFire
    \/ GatewayWriter
    \/ NodeWriter
    \/ GatewayVoiceState({"g1"}, Users, Channels, {"s1", UserSession})

SpecVoiceState == Init /\ [][NextVoiceState]_vars

\* the stored records: the voice states of the bot over the two channels of
\* g1 and in c1 of g2, another user's in c1 of g1, and the voice servers of
\* both guilds; no player is created
NextRecords ==
    \/ HandleReady
    \/ HandleSendWS
    \/ HandleVoiceStateUpdate
    \/ HandleVoiceServerUpdate
    \/ HandleDestroyPlayer
    \/ TimerFire
    \/ GatewayWriter
    \/ GatewayVoiceState({"g1"}, {BotId}, Channels, {"s1"})
    \/ GatewayVoiceState({"g1"}, OtherUsers, {"c1"}, {UserSession})
    \/ GatewayVoiceState({"g2"}, {BotId}, {"c1"}, {"s1"})
    \/ GatewayVoiceServer(Guilds)

SpecRecords == Init /\ [][NextRecords]_vars

\* the users but the bot whose voice states fill the channels of one guild
Occupants == {"u1", "u2"}

\* who sits where: the voice states of the bot and of two other users over the
\* two channels of g1, and the idle timers; no player is created
NextOccupancy ==
    \/ HandleReady
    \/ HandleSendWS
    \/ HandleVoiceStateUpdate
    \/ HandleDestroyPlayer
    \/ TimerFire
    \/ GatewayWriter
    \/ GatewayVoiceState({"g1"}, {BotId}, Channels, {"s1"})
    \/ GatewayVoiceState({"g1"}, Occupants, Channels, {UserSession})

SpecOccupancy == Init /\ [][NextOccupancy]_vars

\* the audio node's session: the frames its reader reads, track ends and
\* reconnects, against the players of one guild
NextNode ==
    \/ HandleReady
    \/ HandleTrackEnd
    \/ HandleLavalinkClosed
    \/ HandleSendWS
    \/ \E c \in Channels : CmdJoin("g1", c)
    \/ \E t \in Tracks : CmdPlay("g1", t)
    \/ GatewayWriter
    \/ NodeWriter
    \/ \E msg \in NodeFrames : NodeReader(msg)

SpecNode == Init /\ [][NextNode]_vars

\* the gateway session: frames, resumes and reconnects
NextGateway ==
    \/ HandleReady
    \/ HandleResumeSeq
    \/ HandleResumeProps
    \/ HandleResume
    \/ HandleReconnect
    \/ GatewayReader
    \/ GatewayWriter
    \/ GatewayHeartbeat

SpecGateway == InitLogin /\ [][NextGateway]_vars

\* ------------------------------------------------------------------ claims
\* what the step added at the tail of the node sender's channel
NodeAppended ==
    IF Len(node_out') > Len(node_out)
    THEN SubSeq(node_out', Len(node_out) + 1, Len(node_out'))
    ELSE <<>>

\* the step is the drain loop handling the event of this type at the queue's head
Drained(type) ==
    /\ Recv(type)
    /\ events' # events
    /\ Len(events') <= Len(events)

\* the step is the gateway reader reading a frame that ends the connection
ReaderRead(kind) ==
    /\ gateway.phase # "gone"
    /\ gateway'.phase = "gone"
    /\ pc' = pc
    /\ ws_msg'.kind = kind

\* the close code table of the claim
C1_Table(code) ==
    IF code \in {4000, 4001, 4002, 4009} THEN <<[type |-> "Resume"]>>
    ELSE IF code \in {4003, 4005, 4007, 4008} THEN <<[type |-> "Reconnect"]>>
    ELSE IF code \in {4004, 4010, 4011, 4013, 4014} THEN <<>>
    ELSE <<[type |-> "Resume"]>>

\* C1: when the reader reads a close frame with a code, it sends exactly the
\* event of the table for that code (one Resume, one Reconnect, or for a fatal
\* code nothing) and the reader task ends.
C1_CloseCodeTable ==
    [][(ReaderRead("close") /\ ws_msg'.code # <<>>) =>
           /\ events' = events \o C1_Table(ws_msg'.code[1])
           /\ "handle_events" \notin gw_tasks']_vars

C1_Witness ==
    /\ ws_msg.kind = "close"
    /\ ws_msg.code = <<4007>>
    /\ events # <<>>
    /\ events[Len(events)].type = "Reconnect"
    /\ "handle_events" \notin gw_tasks

\* C10: resume_props.seq never decreases, except in the step that handles a
\* full Reconnect.
C10_SeqNonDecreasing ==
    [][resume_props'.seq >= resume_props.seq \/ Drained("Reconnect")]_vars

\* the voiceUpdate payloads for this guild the step added to the node's channel
VoiceUpdatesFor(guild_id) ==
    {i \in DOMAIN NodeAppended :
        /\ NodeAppended[i].op = "voiceUpdate"
        /\ NodeAppended[i].guildId = guild_id}

HasPlayer(guild_id) == \E i \in 1..Len(players) : players[i].guild_id = guild_id

HasVoiceServer(guild_id) ==
    \E i \in 1..Len(voice_servers) : voice_servers[i].guild_id = guild_id

HasBotVoiceState(guild_id) ==
    \E i \in 1..Len(m_voice_states) :
        /\ m_voice_states[i].guild_id = guild_id
        /\ m_voice_states[i].user_id = user
        /\ m_voice_states[i].channel_id # None

\* C2: a voiceUpdate for a guild is added to the node's channel only in a step
\* after which the guild has a stored voice server, a voice state of the bot
\* with a channel, and a player, and it carries that state's session id and
\* that server's token and endpoint; a VoiceServerUpdate handled while the
\* bot's voice state or the player is missing sends nothing and changes only
\* the stored voice server of its guild.
C2_VoiceConnectSafety ==
    [][/\ \A i \in DOMAIN NodeAppended :
            NodeAppended[i].op = "voiceUpdate" =>
                LET g == NodeAppended[i].guildId IN
                /\ \E k \in 1..Len(voice_servers') :
                       /\ voice_servers'[k].guild_id = g
                       /\ NodeAppended[i].event.token = voice_servers'[k].token
                       /\ NodeAppended[i].event.endpoint = voice_servers'[k].endpoint
                /\ \E k \in 1..Len(m_voice_states') :
                       /\ m_voice_states'[k].guild_id = g
                       /\ m_voice_states'[k].user_id = user
                       /\ m_voice_states'[k].channel_id # None
                       /\ NodeAppended[i].sessionId = m_voice_states'[k].session_id
                /\ \E k \in 1..Len(players') : players'[k].guild_id = g
       /\ (/\ Drained("VoiceServerUpdate")
           /\ LET g == Head(events).server.guild_id IN
              ~HasBotVoiceState(g) \/ ~HasPlayer(g)) =>
              /\ node_out' = node_out
              /\ SelectSeq(voice_servers',
                           LAMBDA x : x.guild_id # Head(events).server.guild_id)
                   = SelectSeq(voice_servers,
                           LAMBDA x : x.guild_id # Head(events).server.guild_id)
              /\ UNCHANGED <<pc, user, voice_states, m_voice_states, players,
                             players_to_destroy, timers, gw_out, node_reader, node_sender,
                             gw_vars>>]_vars

C2_Witness ==
    /\ node_out # <<>>
    /\ node_out[Len(node_out)].op = "voiceUpdate"
    /\ HasVoiceServer(node_out[Len(node_out)].guildId)
    /\ HasBotVoiceState(node_out[Len(node_out)].guildId)
    /\ HasPlayer(node_out[Len(node_out)].guildId)

\* C3: a VoiceServerUpdate handled while the bot's voice state of the guild is
\* missing emits no voiceUpdate, and the bot's VoiceStateUpdate (with a
\* channel) handled next, while the guild has a player and a stored voice
\* server, emits exactly one voiceUpdate for the guild.
C3_OrderIndependence ==
    [][/\ (/\ Drained("VoiceServerUpdate")
           /\ ~HasBotVoiceState(Head(events).server.guild_id)) =>
              VoiceUpdatesFor(Head(events).server.guild_id) = {}
       /\ (/\ Drained("VoiceStateUpdate")
           /\ Head(events).vs.user_id = user
           /\ Head(events).vs.channel_id # None
           /\ ~HasBotVoiceState(Head(events).vs.guild_id)
           /\ HasVoiceServer(Head(events).vs.guild_id)
           /\ HasPlayer(Head(events).vs.guild_id)) =>
              Cardinality(VoiceUpdatesFor(Head(events).vs.guild_id)) = 1]_vars

\* the guild's idle timers that still sleep
LiveTimers(guild_id) == {t \in timers : t.guild_id = guild_id}

\* the channel of the bot's record of the guild in the all-users collection
BotChannel(guild_id) ==
    LET i == FindIdx(voice_states,
                     LAMBDA s : s.guild_id = guild_id /\ s.user_id = user)
    IN  IF i = 0 THEN None ELSE voice_states[i].channel_id

InChannel(guild_id, channel_id) ==
    {i \in 1..Len(voice_states) :
        /\ voice_states[i].guild_id = guild_id
        /\ voice_states[i].channel_id = channel_id}

\* C4: when the guild has a player, the bot's channel holds the bot and one
\* other user, and that user's VoiceStateUpdate with no channel is handled,
\* a destroy is scheduled and exactly one DestroyPlayer of the guild is on
\* its way.
C4_IdleFiresOnce ==
    [][(/\ Drained("VoiceStateUpdate")
        /\ Head(events).vs.channel_id = None
        /\ Head(events).vs.user_id # user
        /\ LET g == Head(events).vs.guild_id IN
           /\ HasPlayer(g)
           /\ BotChannel(g) # None
           /\ Cardinality(InChannel(g, BotChannel(g))) = 2
           /\ \E i \in InChannel(g, BotChannel(g)) :
                  voice_states[i].user_id = Head(events).vs.user_id) =>
           LET g == Head(events).vs.guild_id IN
           /\ {t \in timers' : t.guild_id = g} # {}
           /\ Cardinality({t \in timers' : t.guild_id = g})
                + Count(events', LAMBDA e : /\ e.type = "DestroyPlayer"
                                            /\ e.guild_id = g) = 1]_vars

\* C5: when one destroy of the guild is scheduled and its timer still sleeps,
\* the bot is alone in its channel, and the VoiceStateUpdate of a user joining
\* that channel is handled, the timer is aborted: no timer of the guild is
\* left to fire, whatever was handled in between.
C5_IdleCancelled ==
    [][(/\ Drained("VoiceStateUpdate")
        /\ Head(events).vs.user_id # user
        /\ LET g == Head(events).vs.guild_id IN
           /\ HasPlayer(g)
           /\ BotChannel(g) # None
           /\ Head(events).vs.channel_id = BotChannel(g)
           /\ Cardinality(InChannel(g, BotChannel(g))) = 1
           /\ Cardinality(LiveTimers(g)) = 1) =>
           LET g == Head(events).vs.guild_id IN
           {t \in timers' : t.guild_id = g} = {}]_vars

\* C6: no guild has two entries of players_to_destroy whose timer task is live.
C6_OnePendingPerGuild ==
    \A g \in Guilds :
        Count(players_to_destroy,
              LAMBDA e : /\ e.guild_id = g
                         /\ \E t \in timers : t.id = e.handle) <= 1

\* C7: no guild has two players.
C7_OnePlayerPerGuild ==
    \A g \in Guilds : Count(players, LAMBDA p : p.guild_id = g) <= 1

C7_Witness ==
    /\ \A g \in Guilds : HasPlayer(g)
    /\ ret = "Already in a voice channel"

\* C8: join for a guild that has a player returns the AlreadyConnected error
\* and changes nothing: the players are as they were and no voice-state
\* update is queued.
C8_JoinExisting ==
    [][\A g \in Guilds, c \in Channels :
           (CmdJoin(g, c) /\ HasPlayer(g)) =>
               /\ ret' = "Already in a voice channel"
               /\ UNCHANGED <<players, events, gw_out, node_out, voice_states,
                              m_voice_states, voice_servers>>]_vars

C8_Witness ==
    /\ ret = "Already in a voice channel"
    /\ \E i \in 1..Len(players) : players[i].queue # <<>> /\ players[i].playing

\* C9: TrackEnd for a player with n >= 1 queued tracks removes the head and
\* keeps the rest in order; for n >= 2 it adds exactly one play payload for the
\* new head and playing stays true; for n = 1 the queue is empty, playing is
\* false and no payload is added.
C9_TrackEnd ==
    [][(/\ Drained("TrackEnd")
        /\ HasPlayer(Head(events).guild_id)
        /\ players[get_player(players, Head(events).guild_id)].queue # <<>>) =>
           LET g == Head(events).guild_id
               i == get_player(players, g)
               q == players[i].queue
           IN  /\ Len(players') = Len(players)
               /\ \A k \in 1..Len(players) : k # i => players'[k] = players[k]
               /\ players'[i].queue = Tail(q)
               /\ players'[i].channel_id = players[i].channel_id
               /\ players'[i].paused = players[i].paused
               /\ IF Len(q) >= 2
                  THEN /\ NodeAppended = <<[op |-> "play", guildId |-> g,
                                            track |-> q[2]]>>
                       /\ players[i].playing
                       /\ players'[i].playing
                  ELSE /\ NodeAppended = <<>>
                       /\ ~players'[i].playing]_vars

C9_Witness ==
    \E i \in 1..Len(players) :
        /\ Len(players[i].queue) = 2
        /\ node_out = <<[op |-> "play", guildId |-> players[i].guild_id,
                         track |-> players[i].queue[1]]>>

\* the step is the gateway reader reading a text frame with this opcode
ReaderReadText(op) ==
    /\ pc' = pc
    /\ "handle_events" \in gw_tasks
    /\ ws_msg'.kind = "text"
    /\ ws_msg'.op = op
    /\ \/ ws_msg' # ws_msg
       \/ gw_tasks' # gw_tasks
       \/ Len(events') > Len(events)

\* C11: handling a Reconnect that connects resets session_id and seq of
\* resume_props, opens the connection without a resume payload and queues the
\* identify payload; and a Resume handled later sends the session id of the
\* gateway's current session, never the abandoned one's.
C11_ReconnectDiscardsToken ==
    [][/\ (Drained("Reconnect") /\ pc' = "loop") =>
              /\ resume_props'.session_id = ""
              /\ resume_props'.seq = 0
              /\ gateway'.phase = "await"
              /\ gw_out' = <<[op |-> 2]>>
       /\ (Drained("Resume") /\ pc' = "loop" /\ gateway.session > 0) =>
              resume_props.session_id = SessionIds[gateway.session]]_vars

\* C12: when the reader reads an opcode 9 payload it ends and sends exactly
\* one Resume, whatever d is.
C12_InvalidSessionResumes ==
    [][ReaderReadText(9) =>
           /\ events' = events \o <<[type |-> "Resume"]>>
           /\ "handle_events" \notin gw_tasks']_vars

\* C13: when the reader reads a close message without a close frame it sends
\* exactly one Resume and ends.
C13_CloseWithoutFrame ==
    [][(ReaderRead("close") /\ ws_msg'.code = <<>>) =>
           /\ events' = events \o <<[type |-> "Resume"]>>
           /\ "handle_events" \notin gw_tasks']_vars

\* C14: when the stream ends or fails without a close message, the reader
\* sends exactly one Resume and ends.
C14_StreamEndResumes ==
    [][ReaderRead("eof") =>
           /\ events' = events \o <<[type |-> "Resume"]>>
           /\ "handle_events" \notin gw_tasks']_vars

C14_Witness ==
    /\ ws_msg.kind = "eof"
    /\ events # <<>>
    /\ events[Len(events)].type = "Resume"
    /\ "handle_events" \notin gw_tasks
    /\ resume_props.session_id # ""

\* C15: handling a Resume, Reconnect or LavalinkClosed event never ends the
\* drain loop, whether the connection it makes (to the url the session's READY
\* gave) succeeds or fails.
C15_LoopSurvivesFailedConnect ==
    [][(/\ resume_props.resume_gateway_url # ""
        /\ \/ Drained("Resume")
           \/ Drained("Reconnect")
           \/ Drained("LavalinkClosed")) => pc' = "loop"]_vars

\* C16: destroy for a guild without a player returns the NotFound error and
\* queues nothing: no voice-state update, no node payload, the players as they
\* were; with a player it queues the voice-state update without a channel and
\* the node destroy payload and removes the player.
C16_DestroyWithoutPlayer ==
    [][\A g \in Guilds :
           CmdDestroy(g) =>
               IF ~HasPlayer(g)
               THEN /\ ret' = "Player not found"
                    /\ UNCHANGED <<players, events, gw_out, node_out>>
               ELSE /\ ret' = None
                    /\ events' = events \o <<SendWsEvent(g, None)>>
                    /\ NodeAppended = <<[op |-> "destroy", guildId |-> g]>>
                    /\ players' = SelectSeq(players, LAMBDA p : p.guild_id # g)]_vars

\* C17: play appends the track at the tail of the player's queue and leaves
\* the player playing; it adds one play payload for that track exactly when
\* the player was not playing before, and nothing otherwise.
C17_PlayAppends ==
    [][\A g \in Guilds, t \in Tracks :
           CmdPlay(g, t) =>
               LET i == get_player(players, g) IN
               /\ Len(players') = Len(players)
               /\ \A k \in 1..Len(players) : k # i => players'[k] = players[k]
               /\ players'[i] = [players[i] EXCEPT
                                     !.queue = Append(players[i].queue, t),
                                     !.playing = TRUE]
               /\ IF ~players[i].playing
                  THEN NodeAppended = <<[op |-> "play", guildId |-> g, track |-> t]>>
                  ELSE NodeAppended = <<>>]_vars

C17_Witness ==
    \E i \in 1..Len(players) :
        /\ Len(players[i].queue) = MaxQueueLen
        /\ players[i].queue[1] # players[i].queue[2]
        /\ players[i].playing
        /\ node_out = <<>>

\* C18: skip on an empty queue returns NothingPlaying and adds no payload; on
\* a non-empty queue it returns the head, adds exactly one stop payload, and
\* leaves the queue and playing as they were.
C18_Skip ==
    [][\A g \in Guilds :
           CmdSkip(g) =>
               LET p == players[get_player(players, g)] IN
               /\ players' = players
               /\ IF p.queue = <<>>
                  THEN /\ ret' = "NothingPlaying"
                       /\ NodeAppended = <<>>
                  ELSE /\ ret' = Head(p.queue)
                       /\ NodeAppended = <<[op |-> "stop", guildId |-> g]>>]_vars

C18_Witness ==
    /\ ret \in Tracks
    /\ node_out # <<>>
    /\ node_out[Len(node_out)].op = "stop"
    /\ \E i \in 1..Len(players) :
           /\ players[i].guild_id = node_out[Len(node_out)].guildId
           /\ players[i].queue # <<>>
           /\ Head(players[i].queue) = ret
           /\ players[i].playing

\* C19: handling LavalinkClosed with a successful connect keeps the players
\* and their guild, channel, queue, playing and paused, and makes the sender of
\* every player the sender of the new connection; in every state a player's
\* sender is the one connect made last.
C19_NodeClosedKeepsPlayers ==
    /\ [](\A i \in 1..Len(players) : players[i].tx = node_sender)
    /\ [][(Drained("LavalinkClosed") /\ pc' = "loop") =>
              /\ node_sender' # node_sender
              /\ Len(players') = Len(players)
              /\ \A i \in 1..Len(players) :
                     players'[i] = [players[i] EXCEPT !.tx = node_sender']]_vars

C19_Witness ==
    /\ node_sender = MaxNodeConnects
    /\ node_reader
    /\ Len(players) = Cardinality(Guilds)
    /\ \E i \in 1..Len(players) :
           /\ players[i].queue # <<>>
           /\ players[i].tx = node_sender

\* C20: after the bot's own VoiceStateUpdate is handled, with no channel the
\* guild has no voice state of the bot and no player (a node destroy payload
\* was added if it had one), and with a channel the guild's voice state of the
\* bot is the new record and its player, if any, records that channel; the
\* VoiceStateUpdate of another user leaves the bot's voice states and the
\* players as they were.
C20_BotVoiceState ==
    [][Drained("VoiceStateUpdate") =>
           LET vs == Head(events).vs
               g == vs.guild_id
               states == {k \in 1..Len(m_voice_states') :
                              m_voice_states'[k].guild_id = g}
               ps == {k \in 1..Len(players') : players'[k].guild_id = g}
           IN  IF vs.user_id # user
               THEN UNCHANGED <<m_voice_states, players>>
               ELSE IF vs.channel_id = None
               THEN /\ states = {}
                    /\ ps = {}
                    /\ HasPlayer(g) =>
                           NodeAppended = <<[op |-> "destroy", guildId |-> g]>>
               ELSE /\ Cardinality(states) = 1
                    /\ \A k \in states : m_voice_states'[k] = vs
                    /\ \A k \in ps : players'[k].channel_id = vs.channel_id]_vars

C20_Witness ==
    /\ \E k \in 1..Len(m_voice_states) :
           /\ m_voice_states[k].guild_id = "g1"
           /\ m_voice_states[k].channel_id = "c2"
    /\ \E k \in 1..Len(players) :
           /\ players[k].guild_id = "g1"
           /\ players[k].channel_id = "c2"
    /\ \E k \in 1..Len(voice_states) :
           /\ voice_states[k].user_id # user
           /\ voice_states[k].channel_id = "c1"
    /\ events = <<>>

\* C21: handling a TrackEnd for a guild that has no player, or whose player's
\* queue is empty, changes nothing, adds no payload and leaves the drain loop
\* running.
C21_TrackEndNothingToPop ==
    [][(/\ Drained("TrackEnd")
        /\ LET i == get_player(players, Head(events).guild_id) IN
           i = 0 \/ players[i].queue = <<>>) =>
           /\ pc' = "loop"
           /\ NodeAppended = <<>>
           /\ UNCHANGED <<players, user, voice_states, m_voice_states,
                          voice_servers, players_to_destroy, timers, gw_out>>]_vars

\* the step is the gateway reader reading a frame
ReaderStep ==
    /\ pc' = pc
    /\ "handle_events" \in gw_tasks
    /\ gateway' = ServerSent(gateway, ws_msg')
    /\ \/ ws_msg' # ws_msg
       \/ gw_tasks' # gw_tasks
       \/ Len(events') > Len(events)

\* the events the step added at the tail of the unified queue
EventsAppended ==
    IF Len(events') > Len(events)
    THEN SubSeq(events', Len(events) + 1, Len(events'))
    ELSE <<>>

\* C22: a Resume the reader sends is the last event of its step, after the
\* ResumeSeq of the frame; and when the loop handles a Resume and the
\* connection is made, resume_props holds the last sequence number a reader
\* received and the session id of the last READY, the gateway gets the resume
\* payload with these values before any other payload, and the new writer's
\* channel starts empty.
C22_ResumePayload ==
    [][/\ ReaderStep =>
              \A i \in DOMAIN EventsAppended :
                  EventsAppended[i].type = "Resume" => i = Len(EventsAppended)
       /\ (Drained("Resume") /\ pc' = "loop") =>
              /\ resume_props.seq = gateway.last_s
              /\ resume_props.session_id = gateway.last_ready
              /\ gateway' = ServerAccepts(gateway,
                                <<[resume_gateway_url |-> ResumeUrl,
                                   session_id |-> gateway.last_ready,
                                   seq |-> gateway.last_s,
                                   token |-> "token"]>>)
              /\ gw_out' = <<>>]_vars

C22_Witness ==
    /\ pc = "loop"
    /\ ws_msg.kind = "text"
    /\ ws_msg.op = 7
    /\ ws_msg.s = <<2>>
    /\ events = <<>>
    /\ gw_tasks = AllTasks
    /\ gateway.phase = "live"
    /\ gateway.seq = 2
    /\ resume_props.seq = 2
    /\ resume_props.session_id = SessionIds[gateway.session]

\* C23: when the reader reads an opcode 7 payload it sends the ResumeSeq of the
\* payload's sequence number, if it carries one, then exactly one Resume, and
\* nothing for a dispatch the payload names, and the reader task ends; while
\* the reader task is ended no event is added to the queue.
C23_Opcode7 ==
    [][/\ (ReaderStep /\ ws_msg'.kind = "text" /\ ws_msg'.op = 7) =>
              /\ EventsAppended =
                     (IF ws_msg'.s # <<>>
                      THEN <<[type |-> "ResumeSeq", seq |-> ws_msg'.s[1]]>>
                      ELSE <<>>) \o <<[type |-> "Resume"]>>
              /\ "handle_events" \notin gw_tasks'
       /\ ("handle_events" \notin gw_tasks /\ "handle_events" \notin gw_tasks') =>
              EventsAppended = <<>>]_vars

C23_Witness ==
    /\ ws_msg.kind = "text"
    /\ ws_msg.op = 7
    /\ ws_msg.t = "READY"
    /\ ws_msg.s # <<>>
    /\ events = <<[type |-> "ResumeSeq", seq |-> ws_msg.s[1]], [type |-> "Resume"]>>
    /\ "handle_events" \notin gw_tasks
    /\ resume_props.session_id # ""

\* C24: no task of a replaced gateway connection is left running, the live
\* tasks are tasks of the current connection, and handling a Resume or a
\* Reconnect that connects leaves exactly the reader, the writer and the
\* heartbeat of the new connection, with an empty channel but for the identify
\* payload of a Reconnect.
C24_OneGeneration ==
    /\ [](gw_superseded = {} /\ gw_tasks \subseteq AllTasks)
    /\ [][((Drained("Resume") \/ Drained("Reconnect")) /\ pc' = "loop") =>
              /\ gw_tasks' = AllTasks
              /\ gw_superseded' = {}
              /\ \A i \in 1..Len(gw_out') : gw_out'[i].op = 2]_vars

C24_Witness ==
    /\ pc = "loop"
    /\ ws_msg.kind = "eof"
    /\ gateway.phase = "live"
    /\ gw_tasks = AllTasks
    /\ gw_out = <<[op |-> 1]>>
    /\ resume_props.seq = 2

\* the frame is a READY dispatch the reader takes as one (not opcode 7 or 9)
IsReady(msg) ==
    /\ msg.kind = "text"
    /\ msg.op \notin {7, 9}
    /\ msg.t = "READY"

HasResumeFields(msg) ==
    msg.d.resume_gateway_url # None /\ msg.d.session_id # None

\* C25: when the reader reads a READY with resume_gateway_url and session_id
\* it sends ResumeProps with these two values and then Ready with the user's
\* id, after the ResumeSeq of the frame; for a READY that lacks one of the two
\* it sends neither. Handling ResumeProps stores the two values, handling
\* Ready stores the user id, and once the queue is drained after such a READY,
\* resume_props and user hold the values of the payload.
C25_ReadyProps ==
    /\ []((IsReady(ws_msg) /\ HasResumeFields(ws_msg) /\ events = <<>>) =>
              /\ resume_props.resume_gateway_url = ws_msg.d.resume_gateway_url
              /\ resume_props.session_id = ws_msg.d.session_id
              /\ user = ws_msg.d.user)
    /\ [][/\ (ReaderStep /\ IsReady(ws_msg')) =>
                 LET seq == IF ws_msg'.s # <<>>
                            THEN <<[type |-> "ResumeSeq", seq |-> ws_msg'.s[1]]>>
                            ELSE <<>>
                 IN  IF HasResumeFields(ws_msg')
                     THEN EventsAppended = seq \o
                              <<[type |-> "ResumeProps",
                                 resume_gateway_url |-> ws_msg'.d.resume_gateway_url,
                                 session_id |-> ws_msg'.d.session_id],
                                [type |-> "Ready", id |-> ws_msg'.d.user]>>
                     ELSE EventsAppended = seq
          /\ Drained("ResumeProps") =>
                 resume_props' =
                     [resume_props EXCEPT
                          !.resume_gateway_url = Head(events).resume_gateway_url,
                          !.session_id = Head(events).session_id]
          /\ Drained("Ready") => user' = Head(events).id]_vars

C25_Witness ==
    /\ IsReady(ws_msg)
    /\ HasResumeFields(ws_msg)
    /\ events = <<>>
    /\ ws_msg.d.session_id = SessionIds[2]
    /\ resume_props.session_id = SessionIds[2]
    /\ user = BotId

\* the event the claim has the node's reader send for a frame
C26_Expected(msg) ==
    IF msg.kind = "text" /\ msg.json /\ msg.guildId # None
       /\ msg.type = "TrackEndEvent"
    THEN <<[type |-> "TrackEnd", guild_id |-> msg.guildId]>>
    ELSE IF msg.kind = "close" THEN <<[type |-> "LavalinkClosed"]>>
    ELSE <<>>

C27_NodeEndSendsClosed ==
    [][\A msg \in NodeFrames :
           (NodeReader(msg) /\ node_reader /\ ~node_reader') =>
               events' = events \o <<[type |-> "LavalinkClosed"]>>]_vars

\* the indices of a collection's records the predicate holds for
Idx(s, guild_id) == {i \in 1..Len(s) : s[i].guild_id = guild_id}

\* C28: voice_states holds at most one record per guild and user,
\* m_voice_states at most one per guild, voice_servers at most one per guild,
\* and no stored voice state lacks a channel. Handling a VoiceStateUpdate with
\* a channel overwrites the record of that guild and user where it is, or
\* pushes it at the end, and without a channel removes that record and no
\* other; handling a VoiceServerUpdate does the same for the guild's server.
C28_RecordsUnique ==
    /\ [](/\ \A i, j \in 1..Len(voice_states) :
                (/\ voice_states[i].guild_id = voice_states[j].guild_id
                 /\ voice_states[i].user_id = voice_states[j].user_id) => i = j
          /\ \A g \in Guilds : Cardinality(Idx(m_voice_states, g)) <= 1
          /\ \A g \in Guilds : Cardinality(Idx(voice_servers, g)) <= 1
          /\ \A i \in 1..Len(voice_states) : voice_states[i].channel_id # None
          /\ \A i \in 1..Len(m_voice_states) : m_voice_states[i].channel_id # None)
    /\ [][/\ Drained("VoiceStateUpdate") =>
                 LET vs == Head(events).vs
                     same == {i \in 1..Len(voice_states) :
                                  /\ voice_states[i].guild_id = vs.guild_id
                                  /\ voice_states[i].user_id = vs.user_id}
                 IN  IF vs.channel_id = None
                     THEN voice_states' =
                              SelectSeq(voice_states,
                                        LAMBDA s : ~(/\ s.guild_id = vs.guild_id
                                                     /\ s.user_id = vs.user_id))
                     ELSE IF same = {}
                     THEN voice_states' = Append(voice_states, vs)
                     ELSE \E i \in same :
                              voice_states' = [voice_states EXCEPT ![i] = vs]
          /\ Drained("VoiceServerUpdate") =>
                 LET server == Head(events).server
                     same == Idx(voice_servers, server.guild_id)
                 IN  IF same = {}
                     THEN voice_servers' = Append(voice_servers, server)
                     ELSE \E i \in same :
                              voice_servers' = [voice_servers EXCEPT ![i] = server]]_vars

C28_Witness ==
    /\ Len(voice_states) = 3
    /\ voice_states[1].user_id = user
    /\ voice_states[1].guild_id = "g1"
    /\ voice_states[1].channel_id = "c2"
    /\ voice_states[2].guild_id = "g1"
    /\ voice_states[3].guild_id = "g2"
    /\ Len(m_voice_states) = 2
    /\ m_voice_states[1].channel_id = "c2"
    /\ Len(voice_servers) = 2
    /\ voice_servers[1].token = "t2"
    /\ voice_servers[2].token = "t1"

\* the users with a record of the channel in the all-users collection
UsersIn(states, guild_id, channel_id) ==
    {states[i].user_id : i \in {k \in 1..Len(states) :
                                   /\ states[k].guild_id = guild_id
                                   /\ states[k].channel_id = channel_id}}

\* C29: when handling the leave of a user other than the bot starts an idle
\* timer for the guild, the channel the user left is the bot's channel and
\* the bot is the only one left in it.
C29_ScheduleOnlyBotAlone ==
    [][(/\ Drained("VoiceStateUpdate")
        /\ Head(events).vs.channel_id = None
        /\ Head(events).vs.user_id # user
        /\ timers' # timers) =>
           LET vs == Head(events).vs
               g == vs.guild_id
               prev == FindIdx(voice_states,
                               LAMBDA s : s.guild_id = g /\ s.user_id = vs.user_id)
           IN  /\ prev # 0
               /\ BotChannel(g) # None
               /\ voice_states[prev].channel_id = BotChannel(g)
               /\ UsersIn(voice_states', g, BotChannel(g)) = {user}]_vars

\* C30: when handling a VoiceStateUpdate aborts an idle timer of the guild,
\* the bot's channel holds a user other than the bot once the update is
\* stored.
C30_CancelOnlyWithCompany ==
    [][(/\ Drained("VoiceStateUpdate")
        /\ Head(events).vs.channel_id # None
        /\ timers' # timers) =>
           LET g == Head(events).vs.guild_id
               bot == {i \in 1..Len(voice_states') :
                           /\ voice_states'[i].guild_id = g
                           /\ voice_states'[i].user_id = user}
           IN  \E i \in bot :
                   UsersIn(voice_states', g, voice_states'[i].channel_id)
                       \ {user} # {}]_vars

\* C31: when the guild has a player and handling the VoiceStateUpdate of a
\* user other than the bot - a disconnect or a move to another channel -
\* leaves the bot the only one in its channel, a destroy of the guild is on its
\* way after the step: an idle timer of the guild sleeps, or its DestroyPlayer
\* is queued.
C31_IdleDestroyScheduled ==
    [][(/\ Drained("VoiceStateUpdate")
        /\ Head(events).vs.user_id # user
        /\ LET g == Head(events).vs.guild_id IN
           /\ HasPlayer(g)
           /\ BotChannel(g) # None
           /\ Head(events).vs.user_id \in UsersIn(voice_states, g, BotChannel(g))
           /\ UsersIn(voice_states', g, BotChannel(g)) = {user}) =>
           LET g == Head(events).vs.guild_id IN
           \/ \E t \in timers' : t.guild_id = g
           \/ \E i \in 1..Len(events') :
                  /\ events'[i].type = "DestroyPlayer"
                  /\ events'[i].guild_id = g]_vars

\* C32: handling DestroyPlayer(G) removes G's entries of players_to_destroy
\* and G's player and leaves the entries and the players of every other guild
\* as they were; when G has no player it changes no player and queues no
\* payload for the gateway or the node.
C32_DestroyOnlyOwnGuild ==
    [][Drained("DestroyPlayer") =>
           LET g == Head(events).guild_id IN
           /\ players_to_destroy' =
                  SelectSeq(players_to_destroy, LAMBDA e : e.guild_id # g)
           /\ players' = SelectSeq(players, LAMBDA p : p.guild_id # g)
           /\ ~HasPlayer(g) =>
                  /\ events' = Tail(events)
                  /\ NodeAppended = <<>>]_vars

\* the step takes the guild's player away by the leave command or by handling
\* the bot's own disconnect
PlayerDestroyed(guild_id) ==
    /\ HasPlayer(guild_id)
    /\ \A i \in 1..Len(players') : players'[i].guild_id # guild_id
    /\ \/ CmdDestroy(guild_id)
       \/ /\ Drained("VoiceStateUpdate")
          /\ Head(events).vs.guild_id = guild_id
          /\ Head(events).vs.user_id = user
          /\ Head(events).vs.channel_id = None

\* C33: when the guild's player is destroyed by the leave command or by the
\* bot's own disconnect, no idle timer of the guild that slept before the step
\* sleeps after it, so none is left to destroy a player a later join creates.
C33_PendingDiesWithPlayer ==
    [][\A g \in Guilds :
           PlayerDestroyed(g) => \A t \in LiveTimers(g) : t \notin timers']_vars

\* the guild's player was created by a join the bot's stored voice state does
\* not know of: the stored record names another channel than the player, as it
\* does from the join that follows a destroy until the gateway's updates for
\* the destroy and for the join have been handled
JoinedSince(guild_id) ==
    /\ HasPlayer(guild_id)
    /\ \E k \in 1..Len(m_voice_states) :
           /\ m_voice_states[k].guild_id = guild_id
           /\ m_voice_states[k].channel_id
                  # players[get_player(players, guild_id)].channel_id

\* C34: when the bot's VoiceStateUpdate without a channel is handled for a
\* guild whose player a join created after the bot's stored voice state (the
\* update is the stale acknowledgement of an earlier leave), the player stays
\* and no leave (op 4 without channel) is queued for the gateway.
C34_StaleLeaveAck ==
    [][(/\ Drained("VoiceStateUpdate")
        /\ Head(events).vs.user_id = user
        /\ Head(events).vs.channel_id = None
        /\ JoinedSince(Head(events).vs.guild_id)) =>
           /\ players' = players
           /\ \A i \in 1..Len(events') :
                  ~(/\ events'[i].type = "SendWS"
                    /\ events'[i].payload.op = 4
                    /\ events'[i].payload.channel_id = None)]_vars

\* the event at the queue's head was handled before and nothing it stored has
\* changed since: the collections are as its first delivery left them
Redelivered ==
    /\ events # <<>>
    /\ \/ /\ Head(events).type = "VoiceServerUpdate"
          /\ \E i \in 1..Len(voice_servers) : voice_servers[i] = Head(events).server
       \/ /\ Head(events).type = "VoiceStateUpdate"
          /\ Head(events).vs.user_id = user
          /\ LET vs == Head(events).vs IN
             IF vs.channel_id = None
             THEN /\ ~HasBotVoiceState(vs.guild_id)
                  /\ ~BotInGuild(vs.guild_id)
                  /\ ~HasPlayer(vs.guild_id)
             ELSE /\ \E i \in 1..Len(m_voice_states) : m_voice_states[i] = vs
                  /\ \E i \in 1..Len(voice_states) : voice_states[i] = vs
                  /\ \A i \in 1..Len(players) :
                         players[i].guild_id = vs.guild_id =>
                             players[i].channel_id = vs.channel_id

\* the voiceUpdate the first delivery of the voice server at the queue's head
\* sent: the guild's, with the session of the bot's record and the server
C35_FirstVoiceUpdate ==
    LET server == Head(events).server
        vi == FindIdx(m_voice_states, LAMBDA s : s.guild_id = server.guild_id)
    IN  IF vi = 0 \/ ~HasPlayer(server.guild_id) THEN <<>>
        ELSE <<[op |-> "voiceUpdate", guildId |-> server.guild_id,
                sessionId |-> m_voice_states[vi].session_id,
                event |-> server]>>

\* C35: handling a VoiceServerUpdate or a VoiceStateUpdate of the bot that was
\* handled before leaves the voice servers, both voice-state collections and
\* the players as they are; the second VoiceServerUpdate sends the node the
\* voiceUpdate the first sent (same guildId, sessionId, token and endpoint),
\* the second VoiceStateUpdate sends no voiceUpdate.
C35_RedeliveryIdempotent ==
    [][((Drained("VoiceServerUpdate") \/ Drained("VoiceStateUpdate")) /\ Redelivered) =>
           /\ voice_servers' = voice_servers
           /\ m_voice_states' = m_voice_states
           /\ voice_states' = voice_states
           /\ players' = players
           /\ NodeAppended = IF Head(events).type = "VoiceServerUpdate"
                             THEN C35_FirstVoiceUpdate ELSE <<>>]_vars

\* an identical VoiceServerUpdate waits a second time while the guild has the
\* bot's voice state and a player: its first delivery sent a voiceUpdate
C35_Witness ==
    /\ Redelivered
    /\ Head(events).type = "VoiceServerUpdate"
    /\ HasBotVoiceState(Head(events).server.guild_id)
    /\ HasPlayer(Head(events).server.guild_id)
    /\ Len(voice_servers) = 2

\* C36: in every state every player is playing exactly when its queue holds a
\* track, whatever play, skip, pause and TrackEnd (on a queue that holds one)
\* came before.
C36_PlayingIffQueued ==
    \A i \in 1..Len(players) : players[i].playing <=> players[i].queue # <<>>

\* the TrackEnd of a skipped track waits for the player whose last track it
\* is: the player still plays, and handling the event empties its queue
C36_Witness ==
    /\ events # <<>>
    /\ Head(events).type = "TrackEnd"
    /\ node_out = <<>>
    /\ \E i \in 1..Len(players) :
           /\ players[i].guild_id = Head(events).guild_id
           /\ players[i].playing
           /\ Len(players[i].queue) = 1
           /\ ret = players[i].queue[1]

\* the bot's records of the guild in the all-users collection
BotRecords(guild_id) ==
    {voice_states[i] : i \in {k \in 1..Len(voice_states) :
                                  /\ voice_states[k].guild_id = guild_id
                                  /\ voice_states[k].user_id = user}}

\* the guild's records in the bot-scoped collection
ScopedRecords(guild_id) ==
    {m_voice_states[i] : i \in {k \in 1..Len(m_voice_states) :
                                    m_voice_states[k].guild_id = guild_id}}

\* C37: once Ready has been handled, the bot-scoped collection has a record of
\* a guild exactly when the all-users collection has the bot's record of it,
\* and the two are the same record (same channel_id and session_id).
C37_ViewsAgree ==
    user # "" =>
        \A g \in Guilds :
            /\ ScopedRecords(g) = BotRecords(g)
            /\ \A r \in ScopedRecords(g) : r.user_id = user

\* both views hold the bot's records of two guilds, the older guild's record
\* replaced since by one of another session
C37_Witness ==
    /\ user = BotId
    /\ Len(m_voice_states) = 2
    /\ Len(voice_states) = 2
    /\ m_voice_states[1].guild_id = "g2"
    /\ m_voice_states[1].session_id = "s2"
    /\ m_voice_states[2].session_id = "s1"
    /\ voice_states = m_voice_states

\* the positions of the terminal events (Resume, Reconnect) of a sequence of events
Terminals(es) == {i \in 1..Len(es) : es[i].type \in {"Resume", "Reconnect"}}

\* C38: a reader task sends at most one terminal event (Resume or Reconnect),
\* as the last event of the step that ends it, whatever it read (opcode 7,
\* opcode 9, a close frame or the stream's end), and while it is ended nothing
\* is added to the queue; so the queue never holds two terminal events, and
\* one it holds is its last event, sent by a reader that has ended.
C38_OneTerminalPerReader ==
    /\ [](/\ Cardinality(Terminals(events)) <= 1
          /\ Terminals(events) # {} =>
                 /\ Terminals(events) = {Len(events)}
                 /\ "handle_events" \notin gw_tasks)
    /\ [][/\ ReaderStep =>
                 /\ Cardinality(Terminals(EventsAppended)) <= 1
                 /\ Terminals(EventsAppended) # {} =>
                        /\ Terminals(EventsAppended) = {Len(EventsAppended)}
                        /\ "handle_events" \notin gw_tasks'
          /\ ("handle_events" \notin gw_tasks /\ "handle_events" \notin gw_tasks') =>
                 Len(events') <= Len(events)]_vars

\* the reader read an opcode 9 payload that allows a resume, sent its one
\* Resume and ended
C38_Witness ==
    /\ pc = "loop"
    /\ ws_msg.kind = "text"
    /\ ws_msg.op = 9
    /\ ws_msg.d = "true"
    /\ events = <<[type |-> "Resume"]>>
    /\ "handle_events" \notin gw_tasks

====
